---------------------------- MODULE Spec2Model ----------------------------
(***************************************************************************)
(* A model of server/controllers/showController.js of QUICKSHOW:           *)
(*   - the External Metadata Client: the process-wide axios-retry          *)
(*     configuration (lines 7-21) and makeTmdbRequest (lines 24-45);       *)
(*   - the handlers addShow (65-127), getShows (130-142), getShow          *)
(*     (145-167) over the two collections movies and shows.                *)
(*                                                                         *)
(* ClientSpec steps one fetch of the External Metadata Client attempt by   *)
(* attempt.  Spec runs concurrent addShow requests, one action per stretch *)
(* of code between two awaits; QuerySpec adds the two read handlers.       *)
(***************************************************************************)
EXTENDS Integers, Sequences, FiniteSets, TLC

VARIABLES
    \* ---- External Metadata Client (one makeTmdbRequest call) ----
    cPhase,     \* "idle" | "inflight" | "waiting" | "returned" | "thrown"
    cAttempts,  \* number of HTTP requests sent for the current call
    cRetry,     \* axios-retry's currentState.retryCount
    cDelays,    \* the delays (ms) axios-retry slept before each retry
    cLog,       \* what each attempt ended with, in order
    cResult,    \* what makeTmdbRequest returned or threw
    \* ---- persistence layer ----
    movies,     \* the Movie collection, in insertion order
    shows,      \* the Show collection, in insertion order; _id = position
    \* ---- server environment ----
    tz,         \* local time minus UTC, in hours (process time zone)
    \* ---- addShow requests ----
    pc,         \* per request: position in addShow
    body,       \* per request: req.body
    fetch,      \* per request: state of the two makeTmdbRequest promises
    toCreate,   \* per request: showsToCreate
    resp,       \* per request: the response sent
    trace,      \* per request: what the request did (observation only)
    calls,      \* number of addShow calls started so far
    \* ---- read handlers ----
    query       \* the response of the getShows / getShow call being answered

clientVars == <<cPhase, cAttempts, cRetry, cDelays, cLog, cResult>>
storeVars  == <<movies, shows>>
reqVars    == <<pc, body, fetch, toCreate, resp, trace, calls>>
vars == <<cPhase, cAttempts, cRetry, cDelays, cLog, cResult,
          movies, shows, tz, pc, body, fetch, toCreate, resp, trace, calls,
          query>>

Null == [null |-> TRUE]

(***************************************************************************)
(*                     EXTERNAL METADATA CLIENT                            *)
(***************************************************************************)

\* retries: 3 (line 8)
Retries == 3

\* the factor of retryDelay (line 10)
DelayUnit == 1000

\* HTTP statuses the provider answers with in the model.  axios resolves a
\* 2xx and rejects every other status with error.response set.
Statuses == {200, 400, 404, 429, 500, 501, 502, 503, 504}

\* Error codes of attempts that got no response.  ECONNABORTED is what the
\* 8-second timeout of line 28 produces.
NoResponseCodes == {"ECONNRESET", "ENOTFOUND", "ECONNABORTED"}

\* What one attempt can end with: a response, a request that was sent and
\* got no response, or an error raised before a request was sent (with or
\* without the request config attached to the error).
Outcomes ==
    [kind : {"response"}, status : Statuses, code : {"NONE"}, config : {TRUE}]
      \cup [kind : {"noresponse"}, status : {0}, code : NoResponseCodes, config : {TRUE}]
      \cup [kind : {"setup"}, status : {0}, code : {"NONE"}, config : BOOLEAN]

IsSuccess(o) == o.kind = "response" /\ o.status \in 200..299

HasResponse(error) == error.kind = "response"

\* axiosRetry.isNetworkError (line 15): no response, an error code, the
\* code neither a timeout/abort nor on is-retry-allowed's deny list.
isNetworkError(error) ==
    /\ ~HasResponse(error)
    /\ error.code # "NONE"
    /\ error.code # "ECONNABORTED"
    /\ error.code # "ENOTFOUND"

\* axiosRetry.isRetryableError (line 16): not a timeout/abort, and either
\* no response or a 5xx response.
isRetryableError(error) ==
    /\ error.code # "ECONNABORTED"
    /\ (~HasResponse(error) \/ error.status \in 500..599)

\* A retry condition that retries every attempt that got an error response.
retryConditionAnyResponse(error) ==
    \/ isNetworkError(error)
    \/ isRetryableError(error)
    \/ error.code = "ECONNRESET"
    \/ HasResponse(error)

\* retryCondition (lines 12-20)
retryCondition(error) ==
    \/ isNetworkError(error)
    \/ isRetryableError(error)
    \/ error.code = "ECONNRESET"
    \/ (HasResponse(error) /\ error.status \in {429, 500, 502, 503, 504})

\* A retry budget that is off by one (retryCount <= retries).
shouldRetryOffByOne(retryCount, error) ==
    /\ error.config
    /\ retryCount <= Retries
    /\ retryCondition(error)

\* axios-retry's response interceptor: retry while retryCount < retries and
\* the retry condition holds; an error without config is passed through.
shouldRetry(retryCount, error) ==
    /\ error.config
    /\ retryCount < Retries
    /\ retryCondition(error)

\* retryDelay (lines 9-11)
retryDelay(retryCount) == retryCount * DelayUnit

\* the catch block of makeTmdbRequest (lines 31-44): the normalized Error
normalizedError(error) ==
    IF HasResponse(error)
      THEN [threw |-> "TMDB API Error", status |-> error.status]
      ELSE IF error.kind = "noresponse"
        THEN [threw |-> "No response received from TMDB API", status |-> 0]
        ELSE [threw |-> "Error setting up request", status |-> 0]

\* response.data (line 30)
Data == [data |-> TRUE]

ClientInit ==
    /\ cPhase = "idle"
    /\ cAttempts = 0
    /\ cRetry = 0
    /\ cDelays = <<>>
    /\ cLog = <<>>
    /\ cResult = Null

\* makeTmdbRequest is called: axios.get sends the first request (line 26).
ClientGet ==
    /\ cPhase = "idle"
    /\ cPhase' = "inflight"
    /\ cAttempts' = 1
    /\ cRetry' = 0
    /\ cDelays' = <<>>
    /\ cLog' = <<>>
    /\ cResult' = Null
    /\ UNCHANGED <<storeVars, tz, reqVars, query>>

\* The attempt in flight ends with outcome o.  A 2xx resolves axios.get and
\* makeTmdbRequest returns response.data; anything else goes through the
\* axios-retry interceptor and then, if not retried, the catch block.
ClientSettle(o) ==
    /\ cPhase = "inflight"
    /\ cLog' = Append(cLog, o)
    /\ IF IsSuccess(o)
         THEN /\ cPhase' = "returned"
              /\ cResult' = Data
              /\ UNCHANGED <<cRetry, cDelays>>
         ELSE IF shouldRetry(cRetry, o)
           THEN /\ cPhase' = "waiting"
                /\ cRetry' = cRetry + 1
                /\ cDelays' = Append(cDelays, retryDelay(cRetry + 1))
                /\ UNCHANGED cResult
           ELSE /\ cPhase' = "thrown"
                /\ cResult' = normalizedError(o)
                /\ UNCHANGED <<cRetry, cDelays>>
    /\ UNCHANGED <<cAttempts, storeVars, tz, reqVars, query>>

ClientSettleAny == \E o \in Outcomes : ClientSettle(o)

\* The retry delay elapsed: axios-retry sends the request again.
ClientResend ==
    /\ cPhase = "waiting"
    /\ cPhase' = "inflight"
    /\ cAttempts' = cAttempts + 1
    /\ UNCHANGED <<cRetry, cDelays, cLog, cResult, storeVars, tz, reqVars, query>>

\* The caller has its answer; the next call may start.
ClientDone ==
    /\ cPhase \in {"returned", "thrown"}
    /\ cPhase' = "idle"
    /\ cAttempts' = 0
    /\ cRetry' = 0
    /\ cDelays' = <<>>
    /\ cLog' = <<>>
    /\ cResult' = Null
    /\ UNCHANGED <<storeVars, tz, reqVars, query>>

ClientNext == ClientGet \/ ClientSettleAny \/ ClientResend \/ ClientDone


(***************************************************************************)
(*                         BOUNDS AND INPUTS                               *)
(***************************************************************************)

\* concurrent addShow requests
MaxReq == 2

\* addShow calls in one behaviour
MaxCalls == 2

Reqs == 1..MaxReq

\* movie identifiers of the provider; 0 stands for an absent (falsy) movieId
MovieIds == {1, 2}
MovieIdInputs == {0} \cup MovieIds

\* show prices; 0 is falsy
PriceInputs == {0, 200}

\* The arrays sent as showsInput.  A date is a day number; a time string is
\* "hh:00", given by its hour, and "99:00" is a malformed time.  In turn:
\* the empty array, one date with two times, two dates with one and two
\* times, one date with a malformed time.
ShowLists ==
    { <<>>,
      <<[date |-> 1, time |-> <<10, 23>>]>>,
      <<[date |-> 1, time |-> <<23>>], [date |-> 2, time |-> <<10, 23>>]>>,
      <<[date |-> 1, time |-> <<10, 99>>]>> }

\* process time zones: local time minus UTC, in hours
TzOffsets == {-2, 0}

\* instants (hours since the epoch) at which the read handlers run
Nows == {0, 40, 60}

\* req.body.showsInput: absent, or an array of {date, time: [...]}
ShowsInputs ==
    {[given |-> FALSE, list |-> <<>>]} \cup [given : {TRUE}, list : ShowLists]

Bodies == [movieId : MovieIdInputs, showsInput : ShowsInputs, showPrice : PriceInputs]

NoBody == [movieId |-> 0, showsInput |-> [given |-> FALSE, list |-> <<>>], showPrice |-> 0]

(***************************************************************************)
(*                         PERSISTENCE LAYER                               *)
(***************************************************************************)

\* Movie.findById (lines 77, 151): the document with that _id, or null
findById(ms, id) ==
    IF \E i \in 1..Len(ms) : ms[i]._id = id
      THEN ms[CHOOSE i \in 1..Len(ms) : ms[i]._id = id]
      ELSE Null

\* A create that builds the document and never saves it.
MovieCreateDiscarded(ms, doc) == [ok |-> TRUE, docs |-> ms]

\* A create that does not check _id for uniqueness.
MovieCreateNoUniqueId(ms, doc) == [ok |-> TRUE, docs |-> Append(ms, doc)]

\* Movie.create (line 102) of a document whose _id is movieId (line 87):
\* MongoDB's unique _id index rejects a second document with the same _id
\* (E11000 duplicate key), and create throws.
MovieCreate(ms, doc) ==
    IF findById(ms, doc._id) # Null
      THEN [ok |-> FALSE, docs |-> ms]
      ELSE [ok |-> TRUE, docs |-> Append(ms, doc)]

\* hours of a day, for the Date arithmetic of lines 112 and 155
HoursPerDay == 24

\* the time value of an Invalid Date
InvalidDate == -1

\* new Date(`${showDate}T${time}`) (lines 109-112): a date-time string
\* without offset is local time; the Date holds the UTC instant.
newDate(showDate, time, offset) ==
    IF time \in 0..HoursPerDay
      THEN showDate * HoursPerDay + time - offset
      ELSE InvalidDate

\* occupiedSeats: {} (line 114)
NoSeats == {}

\* An expansion that keeps only the first time string of each date.
expandTimesFirstOnly(movieId, showDate, times, showPrice, offset) ==
    IF times = <<>> THEN <<>>
    ELSE <<[movie |-> movieId,
            showDateTime |-> newDate(showDate, times[1], offset),
            showPrice |-> showPrice,
            occupiedSeats |-> NoSeats]>>

\* show.time.forEach (lines 108-116)
RECURSIVE expandTimes(_, _, _, _, _)
expandTimes(movieId, showDate, times, showPrice, offset) ==
    IF times = <<>> THEN <<>>
    ELSE <<[movie |-> movieId,
            showDateTime |-> newDate(showDate, Head(times), offset),
            showPrice |-> showPrice,
            occupiedSeats |-> NoSeats]>>
           \o expandTimes(movieId, showDate, Tail(times), showPrice, offset)

\* showsInput.forEach (lines 105-117): showsToCreate
RECURSIVE expandShows(_, _, _, _)
expandShows(movieId, showsInput, showPrice, offset) ==
    IF showsInput = <<>> THEN <<>>
    ELSE expandTimes(movieId, Head(showsInput).date, Head(showsInput).time,
                     showPrice, offset)
           \o expandShows(movieId, Tail(showsInput), showPrice, offset)

\* Show.insertMany (line 120): every document is validated first and an
\* Invalid Date fails the cast of showDateTime, so nothing is inserted;
\* otherwise the batch is appended, _id being the position.
insertManyValid(docs) == \A i \in 1..Len(docs) : docs[i].showDateTime # InvalidDate

insertMany(ss, docs) ==
    ss \o [i \in 1..Len(docs) |->
             [_id |-> Len(ss) + i,
              movie |-> docs[i].movie,
              showDateTime |-> docs[i].showDateTime,
              showPrice |-> docs[i].showPrice,
              occupiedSeats |-> docs[i].occupiedSeats]]


(***************************************************************************)
(*                               addShow                                   *)
(***************************************************************************)

\* A validation that forgets showPrice.
MissingFieldsNoPrice(b) ==
    \/ b.movieId = 0
    \/ ~b.showsInput.given

\* !movieId || !showsInput || !showPrice (line 70); an empty array is truthy
MissingFields(b) ==
    \/ b.movieId = 0
    \/ ~b.showsInput.given
    \/ b.showPrice = 0

\* A lookup result that is never trusted: the movie is always fetched.
MovieAbsentAlways(movie) == TRUE

\* !movie (line 79)
MovieAbsent(movie) == movie = Null

\* What a makeTmdbRequest call ends with: response.data, or one of the three
\* Errors of its catch block (lines 31-44).
FetchResults ==
    {"ok", "TMDB API Error", "No response received from TMDB API",
     "Error setting up request"}

\* A join that is fulfilled as soon as one promise is, and rejected only
\* when both are.
JoinAny(f) ==
    IF f.details = "ok" \/ f.credits = "ok"
      THEN IF f.details = "pending" \/ f.credits = "pending" THEN "pending" ELSE "fulfilled"
      ELSE IF f.details = "pending" \/ f.credits = "pending" THEN "pending" ELSE "rejected"

\* Promise.all (line 81): rejected by the first rejection, fulfilled when
\* both promises are.
PromiseAll(f) ==
    IF f.details \notin {"pending", "ok"} \/ f.credits \notin {"pending", "ok"}
      THEN "rejected"
      ELSE IF f.details = "ok" /\ f.credits = "ok" THEN "fulfilled" ELSE "pending"

\* the reason Promise.all rejects with: that of the promise that rejected
RejectReason(f) == IF f.details \notin {"pending", "ok"} THEN f.details ELSE f.credits

NoFetch == [details |-> "none", credits |-> "none"]

NoTrace ==
    [lookup |-> "none", repoCalls |-> 0, fetchCalls |-> 0, fetchFailed |-> FALSE,
     movieCreates |-> 0, moviesAdded |-> 0, showsAdded |-> 0]

NoResp == [status |-> 0, success |-> FALSE, message |-> ""]

\* res.status(400).json(...) (lines 71-74)
Resp400 ==
    [status |-> 400, success |-> FALSE,
     message |-> "Missing required fields (movieId, showsInput, showPrice)"]

\* res.json({success: true, ...}) (line 122)
RespOk == [status |-> 200, success |-> TRUE, message |-> "Show added successfully"]

\* the catch block (lines 123-126): res.json({success: false, message})
RespError(message) == [status |-> 200, success |-> FALSE, message |-> message]

\* movieDetailsToSave (lines 86-99); of the metadata only the key matters here
movieDetailsToSave(movieId) == [_id |-> movieId]

ReqInit ==
    /\ pc = [p \in Reqs |-> "idle"]
    /\ body = [p \in Reqs |-> NoBody]
    /\ fetch = [p \in Reqs |-> NoFetch]
    /\ toCreate = [p \in Reqs |-> <<>>]
    /\ resp = [p \in Reqs |-> NoResp]
    /\ trace = [p \in Reqs |-> NoTrace]
    /\ calls = 0

\* Lines 65-77: the request arrives; it is rejected with 400, or
\* Movie.findById is issued.
AddShowStart(p, b) ==
    /\ query = Null
    /\ pc[p] = "idle"
    /\ calls < MaxCalls
    /\ calls' = calls + 1
    /\ body' = [body EXCEPT ![p] = b]
    /\ IF MissingFields(b)
         THEN /\ pc' = [pc EXCEPT ![p] = "done"]
              /\ resp' = [resp EXCEPT ![p] = Resp400]
              /\ UNCHANGED trace
         ELSE /\ pc' = [pc EXCEPT ![p] = "findById"]
              /\ trace' = [trace EXCEPT ![p].repoCalls = 1]
              /\ UNCHANGED resp
    /\ UNCHANGED <<clientVars, storeVars, tz, fetch, toCreate, query>>

\* Lines 105-122, run once movie is known: expand showsInput and issue
\* Show.insertMany, or answer at once when there is nothing to insert.
\* tr is the request's trace so far.
ExpandAndContinue(p, tr) ==
    LET showsToCreate ==
          expandShows(body[p].movieId, body[p].showsInput.list, body[p].showPrice, tz)
    IN  /\ toCreate' = [toCreate EXCEPT ![p] = showsToCreate]
        /\ IF Len(showsToCreate) > 0
             THEN /\ pc' = [pc EXCEPT ![p] = "insertMany"]
                  /\ trace' = [trace EXCEPT ![p] = [tr EXCEPT !.repoCalls = @ + 1]]
                  /\ UNCHANGED resp
             ELSE /\ pc' = [pc EXCEPT ![p] = "done"]
                  /\ trace' = [trace EXCEPT ![p] = tr]
                  /\ resp' = [resp EXCEPT ![p] = RespOk]

\* Lines 77-84: Movie.findById answers.  A movie that is there goes straight
\* to the expansion; otherwise the two metadata fetches start.
AddShowFindById(p) ==
    /\ query = Null
    /\ pc[p] = "findById"
    /\ LET movie == findById(movies, body[p].movieId)
           tr == [trace[p] EXCEPT !.lookup = IF movie = Null THEN "absent" ELSE "found"]
       IN  IF MovieAbsent(movie)
             THEN /\ pc' = [pc EXCEPT ![p] = "fetch"]
                  /\ fetch' = [fetch EXCEPT ![p] = [details |-> "pending", credits |-> "pending"]]
                  /\ trace' = [trace EXCEPT ![p] = [tr EXCEPT !.fetchCalls = 2]]
                  /\ UNCHANGED <<toCreate, resp>>
             ELSE /\ ExpandAndContinue(p, tr)
                  /\ UNCHANGED fetch
    /\ UNCHANGED <<clientVars, storeVars, tz, body, calls, query>>

\* Lines 81-102: one of the two makeTmdbRequest calls ends with r.  When
\* Promise.all rejects, the catch block answers; when it is fulfilled,
\* Movie.create is issued.
AddShowFetchSettle(p, which, r) ==
    /\ query = Null
    /\ pc[p] = "fetch"
    /\ fetch[p][which] = "pending"
    /\ LET f == [fetch[p] EXCEPT ![which] = r]
           tr == [trace[p] EXCEPT !.fetchFailed = @ \/ r # "ok"]
       IN  /\ fetch' = [fetch EXCEPT ![p] = f]
           /\ CASE PromiseAll(f) = "rejected" ->
                     /\ pc' = [pc EXCEPT ![p] = "done"]
                     /\ resp' = [resp EXCEPT ![p] = RespError(RejectReason(f))]
                     /\ trace' = [trace EXCEPT ![p] = tr]
                [] PromiseAll(f) = "fulfilled" ->
                     /\ pc' = [pc EXCEPT ![p] = "create"]
                     /\ trace' = [trace EXCEPT ![p] =
                                    [tr EXCEPT !.repoCalls = @ + 1, !.movieCreates = @ + 1]]
                     /\ UNCHANGED resp
                [] OTHER ->
                     /\ trace' = [trace EXCEPT ![p] = tr]
                     /\ UNCHANGED <<pc, resp>>
    /\ UNCHANGED <<clientVars, storeVars, tz, body, toCreate, calls, query>>

\* Line 102: Movie.create answers; on success the expansion follows.
AddShowCreate(p) ==
    /\ query = Null
    /\ pc[p] = "create"
    /\ LET r == MovieCreate(movies, movieDetailsToSave(body[p].movieId))
       IN  /\ movies' = r.docs
           /\ IF r.ok
                THEN ExpandAndContinue(p, [trace[p] EXCEPT !.moviesAdded = Len(r.docs) - Len(movies)])
                ELSE /\ pc' = [pc EXCEPT ![p] = "done"]
                     /\ resp' = [resp EXCEPT ![p] = RespError("E11000 duplicate key error")]
                     /\ UNCHANGED <<trace, toCreate>>
    /\ UNCHANGED <<clientVars, shows, tz, body, fetch, calls, query>>

\* Lines 120-126: Show.insertMany answers.
AddShowInsertMany(p) ==
    /\ query = Null
    /\ pc[p] = "insertMany"
    /\ pc' = [pc EXCEPT ![p] = "done"]
    /\ IF insertManyValid(toCreate[p])
         THEN /\ shows' = insertMany(shows, toCreate[p])
              /\ trace' = [trace EXCEPT ![p].showsAdded = Len(toCreate[p])]
              /\ resp' = [resp EXCEPT ![p] = RespOk]
         ELSE /\ resp' = [resp EXCEPT ![p] = RespError("Show validation failed")]
              /\ UNCHANGED <<shows, trace>>
    /\ UNCHANGED <<clientVars, movies, tz, body, fetch, toCreate, calls, query>>

\* The response has been delivered; the slot takes the next request.
AddShowEnd(p) ==
    /\ query = Null
    /\ pc[p] = "done"
    /\ calls < MaxCalls
    /\ pc' = [pc EXCEPT ![p] = "idle"]
    /\ body' = [body EXCEPT ![p] = NoBody]
    /\ fetch' = [fetch EXCEPT ![p] = NoFetch]
    /\ toCreate' = [toCreate EXCEPT ![p] = <<>>]
    /\ resp' = [resp EXCEPT ![p] = NoResp]
    /\ trace' = [trace EXCEPT ![p] = NoTrace]
    /\ UNCHANGED <<clientVars, storeVars, tz, calls, query>>


(***************************************************************************)
(*                          getShows, getShow                              *)
(***************************************************************************)

\* Show.find({showDateTime: {$gte: new Date()}}) (line 132)
findUpcoming(ss, now) == SelectSeq(ss, LAMBDA sh : sh.showDateTime >= now)

\* Show.find({movie: movieId, showDateTime: {$gte: new Date()}}) (line 149)
findUpcomingOf(ss, movieId, now) ==
    SelectSeq(ss, LAMBDA sh : sh.movie = movieId /\ sh.showDateTime >= now)

\* A populate that hydrates a fresh Movie document for every show.
populatedMoviePerShow(ms, sh) ==
    IF findById(ms, sh.movie) = Null THEN Null
    ELSE [_id |-> sh.movie, object |-> <<"show", sh._id>>]

\* .populate('movie') (line 132): mongoose queries the referenced movies
\* once, hydrates one document per movie found, and assigns that one
\* document to every show that references it; a show whose movie is missing
\* gets null.  object is the identity of the hydrated document.
populatedMovie(ms, sh) ==
    IF findById(ms, sh.movie) = Null THEN Null
    ELSE [_id |-> sh.movie,
          object |-> <<"movie", CHOOSE i \in 1..Len(ms) : ms[i]._id = sh.movie>>]

populate(ss, ms) ==
    [i \in 1..Len(ss) |-> [show |-> ss[i], movie |-> populatedMovie(ms, ss[i])]]

\* .sort({showDateTime: 1}) (line 132)
RECURSIVE insertSorted(_, _)
insertSorted(sorted, x) ==
    IF sorted = <<>> THEN <<x>>
    ELSE IF Head(sorted).show.showDateTime <= x.show.showDateTime
      THEN <<Head(sorted)>> \o insertSorted(Tail(sorted), x)
      ELSE <<x>> \o sorted

RECURSIVE sortByShowDateTime(_)
sortByShowDateTime(ss) ==
    IF ss = <<>> THEN <<>>
    ELSE insertSorted(sortByShowDateTime(SubSeq(ss, 1, Len(ss) - 1)), ss[Len(ss)])

\* Array.from(new Set(shows.map(show => show.movie))) (lines 134-137): a Set
\* keeps the first occurrence of each object, objects compared by identity.
RECURSIVE uniqueShows(_, _)
uniqueShows(ss, seen) ==
    IF ss = <<>> THEN seen
    ELSE uniqueShows(Tail(ss),
                     IF \E k \in 1..Len(seen) : seen[k] = Head(ss).movie
                       THEN seen
                       ELSE Append(seen, Head(ss).movie))

\* getShows (lines 130-142)
getShows(now) ==
    uniqueShows(sortByShowDateTime(populate(findUpcoming(shows, now), movies)), <<>>)

\* A date key taken from the local date of the instant.
dateKeyLocal(showDateTime, offset) == (showDateTime + offset) \div HoursPerDay

\* show.showDateTime.toISOString().split("T")[0] (line 155): toISOString
\* prints the UTC date and the UTC time of day around a "T"; the key is the
\* part before it.  offset is the process time zone, which toISOString
\* does not use.
toISOString(showDateTime) ==
    <<showDateTime \div HoursPerDay, "T", showDateTime % HoursPerDay>>

dateKey(showDateTime, offset) == toISOString(showDateTime)[1]

\* shows.forEach (lines 154-160)
RECURSIVE groupByDate(_, _, _)
groupByDate(ss, dateTime, offset) ==
    IF ss = <<>> THEN dateTime
    ELSE LET show == Head(ss)
             date == dateKey(show.showDateTime, offset)
             slot == IF date \in DOMAIN dateTime THEN dateTime ELSE dateTime @@ (date :> <<>>)
         IN  groupByDate(Tail(ss),
                         [slot EXCEPT ![date] =
                            Append(@, [time |-> show.showDateTime, showId |-> show._id])],
                         offset)

\* const dateTime = {} (line 152)
EmptyObject == [k \in {} |-> <<>>]

\* getShow (lines 145-167)
getShow(movieId, now) ==
    [movie |-> findById(movies, movieId),
     dateTime |-> groupByDate(findUpcomingOf(shows, movieId, now), EmptyObject, tz)]

\* GET /shows is answered at instant now.
GetShows(now) ==
    /\ query = Null
    /\ query' = [handler |-> "getShows", now |-> now, movieId |-> 0,
                 success |-> TRUE, shows |-> getShows(now),
                 movie |-> Null, dateTime |-> EmptyObject]
    /\ UNCHANGED <<clientVars, storeVars, tz, reqVars>>

\* GET /shows/:movieId is answered at instant now.
GetShow(movieId, now) ==
    /\ query = Null
    /\ LET r == getShow(movieId, now)
       IN  query' = [handler |-> "getShow", now |-> now, movieId |-> movieId,
                     success |-> TRUE, shows |-> <<>>,
                     movie |-> r.movie, dateTime |-> r.dateTime]
    /\ UNCHANGED <<clientVars, storeVars, tz, reqVars>>

\* The response of the read handler has been delivered.
QueryEnd ==
    /\ query # Null
    /\ query' = Null
    /\ UNCHANGED <<clientVars, storeVars, tz, reqVars>>

(***************************************************************************)
(*                          SPECIFICATIONS                                 *)
(***************************************************************************)

Init ==
    /\ ClientInit
    /\ movies = <<>>
    /\ shows = <<>>
    /\ tz \in TzOffsets
    /\ ReqInit
    /\ query = Null

\* the addShow requests
Next ==
    \/ \E p \in Reqs, b \in Bodies : AddShowStart(p, b)
    \/ \E p \in Reqs : AddShowFindById(p)
    \/ \E p \in Reqs, which \in {"details", "credits"}, r \in FetchResults :
          AddShowFetchSettle(p, which, r)
    \/ \E p \in Reqs : AddShowCreate(p)
    \/ \E p \in Reqs : AddShowInsertMany(p)
    \/ \E p \in Reqs : AddShowEnd(p)

Spec == Init /\ [][Next]_vars

\* the addShow requests together with the read handlers
QueryNext ==
    \/ Next
    \/ \E now \in Nows : GetShows(now)
    \/ \E movieId \in MovieIds, now \in Nows : GetShow(movieId, now)
    \/ QueryEnd

QuerySpec == Init /\ [][QueryNext]_vars

ClientSpec == Init /\ [][ClientNext]_vars

\* Every attempt ends (with a response, an error, or the 8-second timeout of
\* line 28) and every retry timer fires.
ClientFairSpec ==
    ClientSpec /\ WF_vars(ClientSettleAny) /\ WF_vars(ClientResend)


(***************************************************************************)
(*                              PROPERTIES                                 *)
(***************************************************************************)

\* the number of time strings of showsInput, summed over its dates
RECURSIVE SumTimes(_)
SumTimes(list) ==
    IF list = <<>> THEN 0 ELSE Len(list[1].time) + SumTimes(Tail(list))

\* the (date, time) pairs of showsInput in input order
Pairs(list) ==
    LET RECURSIVE upTo(_, _)
        upTo(d, t) ==
          IF d = 0 THEN <<>>
          ELSE IF t = 0 THEN upTo(d - 1, IF d = 1 THEN 0 ELSE Len(list[d - 1].time))
          ELSE Append(upTo(d, t - 1), <<list[d].date, list[d].time[t]>>)
    IN  IF list = <<>> THEN <<>> ELSE upTo(Len(list), Len(list[Len(list)].time))

\* C1: the step in which an addShow call that passed validation answers
\* success leaves the Show collection longer by exactly the sum of T_i
\* records, over the whole call; the old records are untouched and the new
\* ones are, in input order, one per (date, time) pair, each with the
\* supplied movieId and showPrice and an empty occupiedSeats.
C1_ShowsGrowBySumOfTimes ==
    [][\A p \in Reqs :
         (pc[p] # "done" /\ pc'[p] = "done" /\ resp'[p].success) =>
           LET list == body[p].showsInput.list
               n == SumTimes(list)
           IN  /\ trace'[p].showsAdded = n
               /\ Len(shows') = Len(shows) + n
               /\ SubSeq(shows', 1, Len(shows)) = shows
               /\ Len(Pairs(list)) = n
               /\ \A k \in 1..n :
                    LET sh == shows'[Len(shows) + k]
                    IN  /\ sh.movie = body[p].movieId
                        /\ sh.showPrice = body[p].showPrice
                        /\ sh.occupiedSeats = {}
                        /\ sh.showDateTime =
                             newDate(Pairs(list)[k][1], Pairs(list)[k][2], tz)]_vars

C1_Witness ==
    \E p \in Reqs :
        /\ pc[p] = "done"
        /\ resp[p].success
        /\ Len(body[p].showsInput.list) = 2
        /\ trace[p].showsAdded = 3
        /\ Len(shows) > 3

\* C2: an addShow call whose movieId, showsInput or showPrice is absent or
\* falsy is answered 400 with success false, and has called neither the
\* repository nor the metadata client and created no Movie and no Show.
C2_MissingFieldsRejected ==
    \A p \in Reqs :
        (pc[p] # "idle" /\ (body[p].movieId = 0 \/ ~body[p].showsInput.given
                              \/ body[p].showPrice = 0)) =>
          /\ pc[p] = "done"
          /\ resp[p].status = 400
          /\ resp[p].success = FALSE
          /\ trace[p].repoCalls = 0
          /\ trace[p].fetchCalls = 0
          /\ trace[p].movieCreates = 0
          /\ trace[p].moviesAdded = 0
          /\ trace[p].showsAdded = 0
          /\ fetch[p] = NoFetch

C2_Witness ==
    \E p \in Reqs :
        /\ pc[p] = "done"
        /\ resp[p].status = 400
        /\ body[p].movieId # 0
        /\ body[p].showsInput.given
        /\ body[p].showPrice = 0
        /\ Len(movies) > 0

\* C3: an addShow call whose lookup found the Movie makes no call to the
\* metadata client and no Movie create, and adds nothing to the Movie
\* collection.
C3_ExistingMovieNotRefetched ==
    \A p \in Reqs :
        trace[p].lookup = "found" =>
          /\ trace[p].fetchCalls = 0
          /\ fetch[p] = NoFetch
          /\ trace[p].movieCreates = 0
          /\ trace[p].moviesAdded = 0
          /\ pc[p] \notin {"fetch", "create"}

C3_Witness ==
    \E p \in Reqs :
        /\ trace[p].lookup = "found"
        /\ pc[p] = "done"
        /\ resp[p].success
        /\ trace[p].showsAdded > 0

\* C4: what getShows answers holds only Movies of the collection that have
\* a Show with showDateTime >= now, and no movie identifier twice.
C4_UpcomingMoviesDistinct ==
    query # Null /\ query.handler = "getShows" =>
      /\ \A k \in 1..Len(query.shows) :
           /\ query.shows[k] # Null
           /\ \E j \in 1..Len(movies) : movies[j]._id = query.shows[k]._id
           /\ \E i \in 1..Len(shows) :
                /\ shows[i].movie = query.shows[k]._id
                /\ shows[i].showDateTime >= query.now
      /\ \A k, l \in 1..Len(query.shows) :
           query.shows[k]._id = query.shows[l]._id => k = l

C4_Witness ==
    /\ query # Null
    /\ query.handler = "getShows"
    /\ Len(query.shows) = 2
    /\ \E i, j \in 1..Len(shows) :
         /\ i # j
         /\ shows[i].movie = shows[j].movie
         /\ shows[i].showDateTime >= query.now
         /\ shows[j].showDateTime >= query.now
    /\ \E i \in 1..Len(shows) : shows[i].showDateTime < query.now

\* the places of dateTime that hold the show with this _id
Places(dateTime, showId) ==
    {<<d, k>> \in UNION {{d} \X (1..Len(dateTime[d])) : d \in DOMAIN dateTime} :
        dateTime[d][k].showId = showId}

\* C5: in what getShow answers, every Show of the movie with
\* showDateTime >= now is in exactly one bucket, the one keyed by the UTC
\* date of its showDateTime, and no bucket holds a Show of another movie or
\* of the past.
C5_ShowtimesGroupedByUtcDate ==
    query # Null /\ query.handler = "getShow" =>
      /\ \A i \in 1..Len(shows) :
           IF shows[i].movie = query.movieId /\ shows[i].showDateTime >= query.now
             THEN /\ Cardinality(Places(query.dateTime, i)) = 1
                  /\ \A pl \in Places(query.dateTime, i) :
                       /\ pl[1] = shows[i].showDateTime \div 24
                       /\ query.dateTime[pl[1]][pl[2]].time = shows[i].showDateTime
             ELSE Places(query.dateTime, i) = {}
      /\ \A d \in DOMAIN query.dateTime :
           \A k \in 1..Len(query.dateTime[d]) :
             query.dateTime[d][k].showId \in 1..Len(shows)

C5_Witness ==
    /\ query # Null
    /\ query.handler = "getShow"
    /\ tz # 0
    /\ Cardinality(DOMAIN query.dateTime) = 2
    /\ 3 \in DOMAIN query.dateTime  \* a show entered for local day 2
    /\ \E i \in 1..Len(shows) : shows[i].movie # query.movieId
    /\ \E i \in 1..Len(shows) :
         shows[i].movie = query.movieId /\ shows[i].showDateTime < query.now

\* attempt i of the current fetch was followed by a retry
Retried(i) == i \in 1..Len(cDelays)

IsErrorStatus(o) == o.kind = "response" /\ o.status \notin 200..299

\* C6, as claimed: an attempt is retried only after a failure without
\* response or with status 429, 500, 502, 503 or 504; an attempt that ends
\* with any other error status is not retried, is the only attempt when it
\* is the first, and its error is what the caller receives.
C6_RetryOnlyListedStatuses ==
    \A i \in 1..Len(cLog) :
        /\ Retried(i) =>
             \/ cLog[i].kind # "response"
             \/ cLog[i].status \in {429, 500, 502, 503, 504}
        /\ (IsErrorStatus(cLog[i]) /\ cLog[i].status \notin {429, 500, 502, 503, 504}) =>
             /\ ~Retried(i)
             /\ i = 1 => cAttempts = 1
             /\ cPhase = "thrown"
             /\ cResult = [threw |-> "TMDB API Error", status |-> cLog[i].status]

\* C6, amended: an attempt is retried only after a failure without response
\* or with status 429 or any 5xx status; an attempt that ends with any other
\* error status is not retried, is the only attempt when it is the first,
\* and its error is what the caller receives.
C6_RetryOnly429And5xx ==
    \A i \in 1..Len(cLog) :
        /\ Retried(i) =>
             \/ cLog[i].kind # "response"
             \/ cLog[i].status = 429
             \/ cLog[i].status \in 500..599
        /\ (IsErrorStatus(cLog[i]) /\ cLog[i].status # 429 /\ cLog[i].status \notin 500..599) =>
             /\ ~Retried(i)
             /\ i = 1 => cAttempts = 1
             /\ cPhase = "thrown"
             /\ cResult = [threw |-> "TMDB API Error", status |-> cLog[i].status]

C6_Witness ==
    /\ cPhase = "thrown"
    /\ Len(cLog) = 2
    /\ cLog[1].kind = "response" /\ cLog[1].status = 501
    /\ cLog[2].kind = "response" /\ cLog[2].status = 404
    /\ cAttempts = 2

\* what holds of a fetch at every moment: at most 4 attempts; the delay
\* before retry n is n * 1000 ms; a success ends the fetch with the data,
\* whatever failed before; a failure of the 4th attempt ends it with one
\* of the three normalized errors.
C7_Safety ==
    /\ cAttempts <= 4
    /\ Len(cLog) <= cAttempts
    /\ \A n \in 1..Len(cDelays) : cDelays[n] = n * 1000
    /\ Len(cDelays) <= 3
    /\ (Len(cLog) > 0 /\ IsSuccess(cLog[Len(cLog)])) =>
         /\ cPhase = "returned"
         /\ cResult = Data
         /\ Len(cDelays) = Len(cLog) - 1
    /\ (\A i \in 1..Len(cLog) : cLog[i].kind = "response" /\ cLog[i].status = 503) =>
         /\ Len(cLog) < 4 => cPhase \in {"idle", "inflight", "waiting"}
         /\ Len(cDelays) = (IF Len(cLog) < 4 THEN Len(cLog) ELSE 3)
    /\ (Len(cLog) = 4 /\ ~IsSuccess(cLog[4])) =>
         /\ cPhase = "thrown"
         /\ cResult.threw \in {"TMDB API Error", "No response received from TMDB API",
                               "Error setting up request"}

\* C7: a fetch takes at most 4 attempts with delays 1000, 2000, 3000 ms
\* between them, hands the caller the successful result when an attempt
\* after retryable failures succeeds and a single normalized error when the
\* 4th attempt fails, and always ends.
C7_FetchEndsWithinFourAttempts ==
    /\ []C7_Safety
    /\ (cPhase \in {"inflight", "waiting"}) ~> (cPhase \in {"returned", "thrown"})

C7_Witness ==
    /\ cPhase = "returned"
    /\ Len(cLog) = 4
    /\ \A i \in 1..3 : cLog[i].kind = "response" /\ cLog[i].status = 503
    /\ cDelays = <<1000, 2000, 3000>>
    /\ cResult = Data

\* C8: the Movie collection never holds two records with the same
\* identifier.
C8_MovieIdsUnique ==
    \A i, j \in 1..Len(movies) : movies[i]._id = movies[j]._id => i = j

C8_Witness ==
    \E p, q \in Reqs :
        /\ p # q
        /\ body[p].movieId = body[q].movieId
        /\ trace[p].lookup = "absent" /\ trace[q].lookup = "absent"
        /\ trace[p].movieCreates = 1 /\ trace[q].movieCreates = 1
        /\ pc[p] = "done" /\ pc[q] = "done"

\* C9: every Show's movie reference is the identifier of a Movie of the
\* collection.
C9_ShowsReferenceMovies ==
    \A i \in 1..Len(shows) : \E j \in 1..Len(movies) : movies[j]._id = shows[i].movie

C9_Witness ==
    /\ Len(shows) > 0
    /\ \E p \in Reqs :
         /\ pc[p] = "done"
         /\ ~resp[p].success
         /\ trace[p].lookup = "absent"
         /\ \E i \in 1..Len(shows) : shows[i].movie = body[p].movieId

\* C10: once one of the two metadata fetches of an addShow call has failed,
\* the call is over with the answer {success: false, message}, and it has
\* created no Movie and inserted no Show.
C10_FetchFailureFailsAddShow ==
    \A p \in Reqs :
        trace[p].fetchFailed =>
          /\ pc[p] = "done"
          /\ resp[p].status = 200
          /\ resp[p].success = FALSE
          /\ resp[p].message \in FetchResults \ {"ok"}
          /\ trace[p].movieCreates = 0
          /\ trace[p].moviesAdded = 0
          /\ trace[p].showsAdded = 0

C10_Witness ==
    \E p \in Reqs :
        /\ trace[p].fetchFailed
        /\ pc[p] = "done"
        /\ "ok" \in {fetch[p].details, fetch[p].credits}
        /\ findById(movies, body[p].movieId) = Null

=============================================================================
